---- MODULE Spec2Model ----
(***************************************************************************)
(* boilert: the sampling / history / publication loop of src/src/main.rs,  *)
(* with the broker event-loop task and the UI event loop it runs beside.   *)
(*                                                                         *)
(* Units.  read_temperature rounds to two decimals (sensors.rs:51,65), so  *)
(* a temperature is an integer number of 1/100 degC.  The energy           *)
(* coefficient is in 1/1000 Wh/(l K).  volume * delta_t * coefficient is   *)
(* then in 1e-5 Wh, and the division by 1000.0 of main.rs:139 (Wh to kWh)  *)
(* makes it a number of 1e-8 kWh: energy values are integers in that unit. *)
(* Instants are whole seconds since the process started.                   *)
(***************************************************************************)
EXTENDS Integers, Sequences, FiniteSets, TLC

\* ---------------------------------------------------------------- constants
HISTORY_POINTS == 96
TICK_SECS == 2
HISTORY_UPDATE_SECS == 15 * 60
BACKOFF_SECS == 5
REQUEST_CAP == 10
UI_SLOTS == 6
FALLBACK_TEMP == 2000
SENTINEL_TEMP == 0
TEMP_SCALE == 100
Y_MAX == 100 * TEMP_SCALE
ENERGY_DIGITS == 8
TEMP_DIGITS == 2

\* ------------------------------------------------------------------- bounds
MaxSensors == 2
MaxTicks == 2
MaxBrokerTicks == 4
MaxUiTicks == 2
MaxPending == 1
Window == 1
MaxPeriods == 1
MaxAdds == 98
MaxMarked == 1
MaxEnergyTicks == 1
MaxRenderAdds == 3
MaxLockTicks == 1

\* The instants Instant::now() may return: the first Window seconds of every
\* history period.  A read of the clock returns the instant of the last read
\* or any later one.
MaxTime == MaxPeriods * HISTORY_UPDATE_SECS + Window
Instants == {t \in 0..MaxTime : t % HISTORY_UPDATE_SECS <= Window}
PeriodStarts == {t \in Instants : t % HISTORY_UPDATE_SECS = 0}

\* ------------------------------------------------------------------- inputs
\* What read_temperature may return: a reading or an error.
ReadValues == {2150}
ReadResults ==
    {[ok |-> TRUE, temp |-> v] : v \in ReadValues} \cup {[ok |-> FALSE, temp |-> 0]}

SensorConfig(i) == [name |-> "T" \o ToString(i), id |-> "28-" \o ToString(i)]
Boilers == {[volume_l |-> 100, reference_temp_c |-> 2000, energy_coefficient |-> 1162]}
Configs ==
    {[mqtt |-> [base_topic |-> "boiler"],
      boiler |-> b,
      sensors |-> [i \in 1..n |-> SensorConfig(i)]] : n \in 0..MaxSensors, b \in Boilers}
NoConfig ==
    [mqtt |-> [base_topic |-> ""],
     boiler |-> [volume_l |-> 0, reference_temp_c |-> 0, energy_coefficient |-> 0],
     sensors |-> <<>>]
GoodReads == {r \in ReadResults : r.ok}
LoadResults == {[ok |-> TRUE, config |-> c] : c \in Configs} \cup {[ok |-> FALSE, config |-> NoConfig]}
FullLoads == {r \in LoadResults : Len(r.config.sensors) = MaxSensors}

\* Inputs for the energy estimate: readings below and above the reference
\* temperatures, and boilers whose reference is the usual 20 degC, a
\* temperature no reading exceeds, and a temperature below 0 degC.
EnergyValues == {1000, 3000}
EnergyReads ==
    {[ok |-> TRUE, temp |-> v] : v \in EnergyValues} \cup {[ok |-> FALSE, temp |-> 0]}
AllBoilers ==
    Boilers \cup
    {[volume_l |-> 200, reference_temp_c |-> 4000, energy_coefficient |-> 1000],
     [volume_l |-> 100, reference_temp_c |-> 0 - 500, energy_coefficient |-> 1162]}
EnergyLoads ==
    {[ok |-> TRUE,
      config |-> [mqtt |-> [base_topic |-> "boiler"],
                  boiler |-> b,
                  sensors |-> [i \in 1..n |-> SensorConfig(i)]]] :
        n \in 0..MaxSensors, b \in AllBoilers}

\* ------------------------------------------------------------------ helpers
Max(a, b) == IF a >= b THEN a ELSE b
Min(a, b) == IF a <= b THEN a ELSE b
Clamp(v, lo, hi) == Max(lo, Min(v, hi))

RECURSIVE Sum(_)
Sum(s) == IF s = <<>> THEN 0 ELSE Head(s) + Sum(Tail(s))

RECURSIVE Pow10(_)
Pow10(k) == IF k = 0 THEN 1 ELSE 10 * Pow10(k - 1)

\* The fraction digits of f (0 <= f < 10^k), most significant first, without
\* trailing zeros.
RECURSIVE FracDigits(_, _)
FracDigits(f, k) ==
    IF f = 0 \/ k = 0 THEN <<>>
    ELSE <<f \div Pow10(k - 1)>> \o FracDigits(f % Pow10(k - 1), k - 1)

\* f32::to_string of the fixed-point number v / 10^k: sign, integer part and
\* the shortest fraction ("21.5", "20", "0", "0.581").
ToDecimalString(v, k) ==
    LET a == IF v < 0 THEN 0 - v ELSE v
        whole == ToString(a \div Pow10(k))
        frac == FracDigits(a % Pow10(k), k)
        RECURSIVE Cat(_)
        Cat(ds) == IF ds = <<>> THEN "" ELSE ToString(Head(ds)) \o Cat(Tail(ds))
    IN  (IF v < 0 THEN "-" ELSE "") \o whole \o (IF frac = <<>> THEN "" ELSE "." \o Cat(frac))

\* ----------------------------------------------------------- SensorHistory
New(initial_val, now) ==
    [points |-> [k \in 1..HISTORY_POINTS |-> initial_val], last_update |-> now]

\* add_point without the remove(0): the track grows.
AddPointNoEvict(h, val, now) ==
    [points |-> Append(h.points, val), last_update |-> now]

\* add_point that evicts the newest point instead of the oldest.
AddPointEvictNewest(h, val, now) ==
    [points |-> Append(SubSeq(h.points, 1, Len(h.points) - 1), val), last_update |-> now]

AddPoint(h, val, now) ==
    [points |-> Append(Tail(h.points), val), last_update |-> now]

\* A path whose y is not clamped.
ToSvgPathNoClamp(h) ==
    [k \in 1..Len(h.points) |->
        <<IF k = 1 THEN "M" ELSE "L", k - 1, Y_MAX - h.points[k]>>]

\* to_svg_path: the path as its commands, "M x y" for the first point and
\* "L x y" for the others.
ToSvgPath(h) ==
    [k \in 1..Len(h.points) |->
        <<IF k = 1 THEN "M" ELSE "L", k - 1, Clamp(Y_MAX - h.points[k], 0, Y_MAX)>>]

\* ---------------------------------------------------------- energy estimate
AvgTemp(ts) == IF ts = <<>> THEN 0 ELSE Sum(ts) \div Len(ts)
DeltaT(ts, boiler) == Max(AvgTemp(ts) - boiler.reference_temp_c, 0)
EnergyKwh(ts, boiler) == boiler.volume_l * DeltaT(ts, boiler) * boiler.energy_coefficient

\* -------------------------------------------------------------------- state
VARIABLES
    mainPc,                 \* main(): "load", "seed", "run" (ui.run()), "failed"
    config,                 \* the loaded Config
    clock,                  \* the instant the clock last returned
    history,                \* Vec<SensorHistory>
    added,                  \* per track, the startup read, its seed, the
                            \* values add_point was called with since and
                            \* the tick of the last call
    pc,                     \* the sample loop's position
    deadline,               \* the interval's next tick
    last_history_update,
    temps,                  \* the tick's readings so far
    energy_kwh,
    tickNo,                 \* ticks started
    readLog,                \* the results of read_temperature in the tick so far
    pubLog,                 \* the publish calls of the tick so far
    requests,               \* requests waiting in the client's channel
    netUp,                  \* the event loop holds a connection
    brokerPc,               \* the broker task: "none", "poll", "sleep"
    wake,                   \* the instant the broker task's sleep ends
    failures,               \* the Err results of eventloop.poll() so far
    uiAlive,                \* the window exists (ui_weak upgrades)
    uiQueue,                \* closures scheduled with invoke_from_event_loop
    ui                      \* the window's properties

vars ==
    <<mainPc, config, clock, history, added, pc, deadline, last_history_update,
      temps, energy_kwh, tickNo, readLog, pubLog, requests, netUp, brokerPc, wake,
      failures, uiAlive, uiQueue, ui>>

loopVars == <<pc, deadline, last_history_update, temps, energy_kwh, tickNo, readLog, pubLog>>
brokerVars == <<netUp, brokerPc, wake, failures>>
uiVars == <<uiAlive, uiQueue, ui>>
mainVars == <<mainPc, config>>

NumSensors == Len(config.sensors)

Init ==
    /\ mainPc = "load"
    /\ config = NoConfig
    /\ clock = 0
    /\ history = <<>>
    /\ added = <<>>
    /\ pc = "none"
    /\ deadline = 0
    /\ last_history_update = 0
    /\ temps = <<>>
    /\ energy_kwh = 0
    /\ tickNo = 0
    /\ readLog = <<>>
    /\ pubLog = <<>>
    /\ requests = 0
    /\ netUp = FALSE
    /\ brokerPc = "none"
    /\ wake = 0
    /\ failures = 0
    /\ uiAlive = TRUE
    /\ uiQueue = <<>>
    /\ ui = [names |-> <<>>, vals |-> <<>>, paths |-> <<>>, energy_kwh |-> 0, tick |-> 0]

\* ------------------------------------------------------------------ startup
\* A main that spawns the broker task before it loads the configuration.
LoadConfigSpawnFirst(r) ==
    /\ mainPc = "load"
    /\ brokerPc' = "poll"
    /\ IF r.ok
       THEN /\ config' = r.config
            /\ ui' = [ui EXCEPT !.names =
                        [k \in 1..Min(Len(r.config.sensors), UI_SLOTS) |->
                            r.config.sensors[k].name]]
            /\ mainPc' = "seed"
       ELSE /\ mainPc' = "failed"
            /\ UNCHANGED <<config, ui>>
    /\ UNCHANGED <<clock, history, added, loopVars, requests, netUp, wake, failures,
                   uiAlive, uiQueue>>

\* main.rs:60-89: Config::load()?, the client and the broker task, the names.
LoadConfig(r) ==
    /\ mainPc = "load"
    /\ IF r.ok
       THEN /\ config' = r.config
            /\ brokerPc' = "poll"
            /\ ui' = [ui EXCEPT !.names =
                        [k \in 1..Min(Len(r.config.sensors), UI_SLOTS) |->
                            r.config.sensors[k].name]]
            /\ mainPc' = "seed"
       ELSE /\ mainPc' = "failed"
            /\ UNCHANGED <<config, brokerPc, ui>>
    /\ UNCHANGED <<clock, history, added, loopVars, requests, netUp, wake, failures,
                   uiAlive, uiQueue>>

\* A startup read whose error ends main instead of being replaced.
SeedHistoryAbortOnError(r) ==
    /\ mainPc = "seed"
    /\ Len(history) < NumSensors
    /\ IF r.ok
       THEN /\ history' = Append(history, New(r.temp, clock))
            /\ added' = Append(added, [read |-> r, seed |-> r.temp, vals |-> <<>>, tick |-> 0])
            /\ UNCHANGED mainVars
       ELSE /\ mainPc' = "failed"
            /\ UNCHANGED <<config, history, added>>
    /\ UNCHANGED <<clock, loopVars, requests, brokerVars, uiVars>>

\* main.rs:92-96: one track per sensor, seeded with a reading or 20.0.
SeedHistory(r) ==
    /\ mainPc = "seed"
    /\ Len(history) < NumSensors
    /\ LET val == IF r.ok THEN r.temp ELSE FALLBACK_TEMP IN
        /\ history' = Append(history, New(val, clock))
        /\ added' = Append(added, [read |-> r, seed |-> val, vals |-> <<>>, tick |-> 0])
    /\ UNCHANGED <<mainVars, clock, loopVars, requests, brokerVars, uiVars>>

\* main.rs:99-103 and 173: the sample loop task starts, main enters ui.run().
SpawnLoop ==
    /\ mainPc = "seed"
    /\ Len(history) = NumSensors
    /\ mainPc' = "run"
    /\ pc' = "tick"
    /\ deadline' = clock
    /\ last_history_update' = clock
    /\ UNCHANGED <<config, clock, history, added, temps, energy_kwh, tickNo, readLog,
                   pubLog, requests, brokerVars, uiVars>>

\* -------------------------------------------------------------- sample loop
Topic(name) == config.mqtt.base_topic \o "/" \o name

\* main.rs:106-108: interval.tick().await, then the empty readings vector.
\* The tick completes at an instant now, at its deadline or later.
\* The model follows the first maxTicks ticks, and a tick starts with at most
\* maxPending closures still waiting for the UI event loop.
Tick(now, maxTicks, maxPending) ==
    /\ pc = "tick"
    /\ now >= clock
    /\ now >= deadline
    /\ clock' = now
    /\ tickNo < maxTicks
    /\ Len(uiQueue) <= maxPending
    /\ deadline' = deadline + TICK_SECS
    /\ tickNo' = tickNo + 1
    /\ temps' = <<>>
    /\ pc' = IF NumSensors = 0 THEN "history" ELSE "read"
    /\ UNCHANGED <<mainVars, history, added, last_history_update, energy_kwh,
                   readLog, pubLog, requests, brokerVars, uiVars>>

\* A read whose error ends the iteration instead of being replaced.
ReadSensorAbortOnError(r) ==
    /\ pc = "read"
    /\ readLog' = Append(readLog, r)
    /\ temps' = IF r.ok THEN Append(temps, r.temp) ELSE temps
    /\ pc' = IF r.ok THEN "publish" ELSE "tick"
    /\ UNCHANGED <<mainVars, clock, history, added, deadline, last_history_update,
                   energy_kwh, tickNo, pubLog, requests, brokerVars, uiVars>>

\* main.rs:110-117: the reading, or 0.0 when the read fails.
ReadSensor(r) ==
    /\ pc = "read"
    /\ temps' = Append(temps, IF r.ok THEN r.temp ELSE SENTINEL_TEMP)
    /\ readLog' = Append(readLog, r)
    /\ pc' = "publish"
    /\ UNCHANGED <<mainVars, clock, history, added, deadline, last_history_update,
                   energy_kwh, tickNo, pubLog, requests, brokerVars, uiVars>>

\* client.publish(..).await: the request enters the bounded channel, which
\* takes it only when it holds fewer than REQUEST_CAP requests; an Err result
\* leaves the channel as it was.
ClientPublish(topic, payload, ok) ==
    /\ ok => requests < REQUEST_CAP
    /\ requests' = IF ok THEN requests + 1 ELSE requests
    /\ pubLog' = Append(pubLog, [topic |-> topic, payload |-> payload])

\* A publish of the sensor's id instead of its name.
PublishReadingById(ok) ==
    /\ pc = "publish"
    /\ LET i == Len(temps) IN
        /\ ClientPublish(Topic(config.sensors[i].id),
                         ToDecimalString(temps[i], TEMP_DIGITS), ok)
        /\ pc' = IF i < NumSensors THEN "read" ELSE "history"
    /\ UNCHANGED <<mainVars, clock, history, added, deadline, last_history_update,
                   temps, energy_kwh, tickNo, readLog, brokerVars, uiVars>>

\* A publish that is sent again when it fails.
PublishReadingRetry(ok) ==
    /\ pc = "publish"
    /\ LET i == Len(temps) IN
        /\ ClientPublish(Topic(config.sensors[i].name),
                         ToDecimalString(temps[i], TEMP_DIGITS), ok)
        /\ pc' = IF ~ok THEN "publish" ELSE IF i < NumSensors THEN "read" ELSE "history"
    /\ UNCHANGED <<mainVars, clock, history, added, deadline, last_history_update,
                   temps, energy_kwh, tickNo, readLog, brokerVars, uiVars>>

\* A loop that goes from the last publish to the energy, past the gate.
PublishReadingSkipGate(ok) ==
    /\ pc = "publish"
    /\ LET i == Len(temps) IN
        /\ ClientPublish(Topic(config.sensors[i].name),
                         ToDecimalString(temps[i], TEMP_DIGITS), ok)
        /\ pc' = IF i < NumSensors THEN "read" ELSE "energy"
    /\ UNCHANGED <<mainVars, clock, history, added, deadline, last_history_update,
                   temps, energy_kwh, tickNo, readLog, brokerVars, uiVars>>

\* main.rs:119-122: the reading's publish, its result dropped.
PublishReading(ok) ==
    /\ pc = "publish"
    /\ LET i == Len(temps) IN
        /\ ClientPublish(Topic(config.sensors[i].name),
                         ToDecimalString(temps[i], TEMP_DIGITS), ok)
        /\ pc' = IF i < NumSensors THEN "read" ELSE "history"
    /\ UNCHANGED <<mainVars, clock, history, added, deadline, last_history_update,
                   temps, energy_kwh, tickNo, readLog, brokerVars, uiVars>>

\* A gate that opens only after more than the interval.
UpdateHistoryStrictGate(now) ==
    /\ pc = "history"
    /\ now >= clock
    /\ clock' = now
    /\ LET update_history == now - last_history_update > HISTORY_UPDATE_SECS
       IN  IF update_history
           THEN /\ history' = [i \in 1..Len(history) |->
                                 IF i <= Len(temps)
                                 THEN AddPoint(history[i], temps[i], now)
                                 ELSE history[i]]
                /\ added' = [i \in 1..Len(added) |->
                               IF i <= Len(temps)
                               THEN [added[i] EXCEPT !.vals = Append(@, temps[i]),
                                                     !.tick = tickNo]
                               ELSE added[i]]
                /\ last_history_update' = now
           ELSE UNCHANGED <<history, added, last_history_update>>
    /\ pc' = "energy"
    /\ UNCHANGED <<mainVars, deadline, temps, energy_kwh, tickNo, readLog,
                   pubLog, requests, brokerVars, uiVars>>

\* A gate that leaves out the tracks of the sensors whose read failed.
UpdateHistorySkipFailed(now) ==
    /\ pc = "history"
    /\ now >= clock
    /\ clock' = now
    /\ LET update_history == now - last_history_update >= HISTORY_UPDATE_SECS
       IN  IF update_history
           THEN /\ history' = [i \in 1..Len(history) |->
                                 IF i <= Len(temps) /\ readLog[i].ok
                                 THEN AddPoint(history[i], temps[i], now)
                                 ELSE history[i]]
                /\ added' = [i \in 1..Len(added) |->
                               IF i <= Len(temps) /\ readLog[i].ok
                               THEN [added[i] EXCEPT !.vals = Append(@, temps[i]),
                                                     !.tick = tickNo]
                               ELSE added[i]]
                /\ last_history_update' = now
           ELSE UNCHANGED <<history, added, last_history_update>>
    /\ pc' = "energy"
    /\ UNCHANGED <<mainVars, deadline, temps, energy_kwh, tickNo, readLog,
                   pubLog, requests, brokerVars, uiVars>>

\* A gate that updates the tracks and keeps its reference time.
UpdateHistoryNoReset(now) ==
    /\ pc = "history"
    /\ now >= clock
    /\ clock' = now
    /\ LET update_history == now - last_history_update >= HISTORY_UPDATE_SECS
       IN  IF update_history
           THEN /\ history' = [i \in 1..Len(history) |->
                                 IF i <= Len(temps)
                                 THEN AddPoint(history[i], temps[i], now)
                                 ELSE history[i]]
                /\ added' = [i \in 1..Len(added) |->
                               IF i <= Len(temps)
                               THEN [added[i] EXCEPT !.vals = Append(@, temps[i]),
                                                     !.tick = tickNo]
                               ELSE added[i]]
                /\ UNCHANGED last_history_update
           ELSE UNCHANGED <<history, added, last_history_update>>
    /\ pc' = "energy"
    /\ UNCHANGED <<mainVars, deadline, temps, energy_kwh, tickNo, readLog,
                   pubLog, requests, brokerVars, uiVars>>

\* main.rs:125-134: the history gate, at the instant now that it reads.  The
\* tracks' last_update, which the program never reads, is stamped with the
\* same instant.
UpdateHistory(now) ==
    /\ pc = "history"
    /\ now >= clock
    /\ clock' = now
    /\ LET update_history == now - last_history_update >= HISTORY_UPDATE_SECS
       IN  IF update_history
           THEN /\ history' = [i \in 1..Len(history) |->
                                 IF i <= Len(temps)
                                 THEN AddPoint(history[i], temps[i], now)
                                 ELSE history[i]]
                /\ added' = [i \in 1..Len(added) |->
                               IF i <= Len(temps)
                               THEN [added[i] EXCEPT !.vals = Append(@, temps[i]),
                                                     !.tick = tickNo]
                               ELSE added[i]]
                /\ last_history_update' = now
           ELSE UNCHANGED <<history, added, last_history_update>>
    /\ pc' = "energy"
    /\ UNCHANGED <<mainVars, deadline, temps, energy_kwh, tickNo, readLog,
                   pubLog, requests, brokerVars, uiVars>>

\* An energy computed from the difference as it is, without the max.
ComputeEnergyNoClamp ==
    /\ pc = "energy"
    /\ energy_kwh' = config.boiler.volume_l
                        * (AvgTemp(temps) - config.boiler.reference_temp_c)
                        * config.boiler.energy_coefficient
    /\ pc' = "publish_energy"
    /\ UNCHANGED <<mainVars, clock, history, added, deadline, last_history_update,
                   temps, tickNo, readLog, pubLog, requests, brokerVars, uiVars>>

\* An energy computed from the readings that did not fail.
ComputeEnergySkipFailed ==
    /\ pc = "energy"
    /\ energy_kwh' = LET good == SelectSeq(readLog, LAMBDA r : r.ok)
                      IN  EnergyKwh([k \in 1..Len(good) |-> good[k].temp], config.boiler)
    /\ pc' = "publish_energy"
    /\ UNCHANGED <<mainVars, clock, history, added, deadline, last_history_update,
                   temps, tickNo, readLog, pubLog, requests, brokerVars, uiVars>>

\* main.rs:137-139.
ComputeEnergy ==
    /\ pc = "energy"
    /\ energy_kwh' = EnergyKwh(temps, config.boiler)
    /\ pc' = "publish_energy"
    /\ UNCHANGED <<mainVars, clock, history, added, deadline, last_history_update,
                   temps, tickNo, readLog, pubLog, requests, brokerVars, uiVars>>

\* main.rs:142-143.
PublishEnergy(ok) ==
    /\ pc = "publish_energy"
    /\ ClientPublish(Topic("energy"), ToDecimalString(energy_kwh, ENERGY_DIGITS), ok)
    /\ pc' = "handoff"
    /\ UNCHANGED <<mainVars, clock, history, added, deadline, last_history_update,
                   temps, energy_kwh, tickNo, readLog, brokerVars, uiVars>>

\* What the closure of main.rs:145-168 captures by value.
Snapshot ==
    [temps |-> temps,
     history_paths |-> [i \in 1..Len(history) |-> ToSvgPath(history[i])],
     energy_kwh |-> energy_kwh,
     tick |-> tickNo]

\* A hand-off that sets the window's properties from the sample loop.
HandoffDirect(ok) ==
    /\ pc = "handoff"
    /\ ~ok => ~uiAlive
    /\ ui' = [ui EXCEPT !.vals = temps, !.energy_kwh = energy_kwh, !.tick = tickNo]
    /\ pc' = "tick"
    /\ temps' = <<>>
    /\ energy_kwh' = 0
    /\ readLog' = <<>>
    /\ pubLog' = <<>>
    /\ UNCHANGED <<mainVars, clock, history, added, deadline, last_history_update,
                   tickNo, requests, brokerVars, uiAlive, uiQueue>>

\* main.rs:145-168: invoke_from_event_loop, its result dropped; it can only
\* fail once the event loop is gone.  The iteration's locals end here.
Handoff(ok) ==
    /\ pc = "handoff"
    /\ ~ok => ~uiAlive
    /\ uiQueue' = IF ok THEN Append(uiQueue, Snapshot) ELSE uiQueue
    /\ pc' = "tick"
    /\ temps' = <<>>
    /\ energy_kwh' = 0
    /\ readLog' = <<>>
    /\ pubLog' = <<>>
    /\ UNCHANGED <<mainVars, clock, history, added, deadline, last_history_update,
                   tickNo, requests, brokerVars, uiAlive, ui>>

\* -------------------------------------------------------------- broker task
\* main.rs:73: an eventloop.poll() that returns Ok: the connection is made,
\* or a request is taken from the channel.
BrokerPollOk ==
    /\ brokerPc = "poll"
    /\ \/ ~netUp /\ netUp' = TRUE /\ UNCHANGED requests
       \/ netUp /\ requests > 0 /\ requests' = requests - 1 /\ UNCHANGED netUp
    /\ UNCHANGED <<mainVars, clock, history, added, loopVars, brokerPc, wake, failures,
                   uiVars>>

\* A broker task that ends at the first error.
BrokerPollErrExit(drain, now) ==
    /\ brokerPc = "poll"
    /\ now >= clock
    /\ clock' = now
    /\ drain => netUp
    /\ netUp' = FALSE
    /\ requests' = IF drain THEN 0 ELSE requests
    /\ brokerPc' = "done"
    /\ wake' = now
    /\ failures' = failures + 1
    /\ UNCHANGED <<mainVars, history, added, loopVars, uiVars>>

\* main.rs:73-76: poll() returns Err at an instant now: the task sleeps for
\* the back-off from then.  A connection that was up is dropped; the event
\* loop may then move the channel's requests to its own pending list.
BrokerPollErr(drain, now) ==
    /\ brokerPc = "poll"
    /\ now >= clock
    /\ clock' = now
    /\ drain => netUp
    /\ netUp' = FALSE
    /\ requests' = IF drain THEN 0 ELSE requests
    /\ brokerPc' = "sleep"
    /\ wake' = now + BACKOFF_SECS
    /\ failures' = failures + 1
    /\ UNCHANGED <<mainVars, history, added, loopVars, uiVars>>

\* main.rs:75: the sleep ends at an instant now, the loop polls again.
BrokerWake(now) ==
    /\ brokerPc = "sleep"
    /\ now >= clock
    /\ now >= wake
    /\ clock' = now
    /\ brokerPc' = "poll"
    /\ UNCHANGED <<mainVars, history, added, loopVars, requests, netUp, wake,
                   failures, uiVars>>

\* ------------------------------------------------------------ UI event loop
ApplySnapshot(u, c) ==
    [u EXCEPT
        !.vals = [k \in 1..Max(Len(u.vals), Min(Len(c.temps), UI_SLOTS)) |->
                    IF k <= Len(c.temps) THEN c.temps[k] ELSE u.vals[k]],
        !.paths = [k \in 1..Max(Len(u.paths), Min(Len(c.history_paths), UI_SLOTS)) |->
                    IF k <= Len(c.history_paths) THEN c.history_paths[k] ELSE u.paths[k]],
        !.energy_kwh = c.energy_kwh,
        !.tick = c.tick]

\* A closure that unwraps the weak handle instead of testing it.
RunClosureUnwrap ==
    /\ uiQueue # <<>>
    /\ ui' = ApplySnapshot(ui, Head(uiQueue))
    /\ uiQueue' = Tail(uiQueue)
    /\ UNCHANGED <<mainVars, clock, history, added, loopVars, requests, brokerVars, uiAlive>>

\* A closure that renders the tracks when it runs instead of holding the
\* paths rendered at the hand-off.
RunClosureSharedHistory ==
    /\ uiQueue # <<>>
    /\ ui' = IF uiAlive
             THEN ApplySnapshot(ui, [Head(uiQueue) EXCEPT !.history_paths =
                                        [i \in 1..Len(history) |-> ToSvgPath(history[i])]])
             ELSE ui
    /\ uiQueue' = Tail(uiQueue)
    /\ UNCHANGED <<mainVars, clock, history, added, loopVars, requests, brokerVars, uiAlive>>

\* main.rs:149-167: the event loop runs the closure; without a window it does
\* nothing.
RunClosure ==
    /\ uiQueue # <<>>
    /\ ui' = IF uiAlive THEN ApplySnapshot(ui, Head(uiQueue)) ELSE ui
    /\ uiQueue' = Tail(uiQueue)
    /\ UNCHANGED <<mainVars, clock, history, added, loopVars, requests, brokerVars, uiAlive>>

\* The window is closed.
CloseWindow ==
    /\ mainPc = "run"
    /\ uiAlive
    /\ uiAlive' = FALSE
    /\ UNCHANGED <<mainVars, clock, history, added, loopVars, requests, brokerVars,
                   uiQueue, ui>>

\* ------------------------------------------------------------ specifications
Startup(Loads, Reads) ==
    \/ \E r \in Loads : LoadConfig(r)
    \/ \E r \in Reads : SeedHistory(r)
    \/ SpawnLoop

SampleLoop(Times, Reads, Results, maxTicks, maxPending) ==
    \/ \E now \in Times : Tick(now, maxTicks, maxPending)
    \/ \E r \in Reads : ReadSensor(r)
    \/ \E ok \in Results : PublishReading(ok)
    \/ \E now \in Times : UpdateHistory(now)
    \/ ComputeEnergy
    \/ \E ok \in Results : PublishEnergy(ok)
    \/ \E ok \in BOOLEAN : Handoff(ok)

\* The sample loop with sensors that read or fail and every instant of the
\* clock; publishes are accepted, the broker task has not polled yet and the
\* UI event loop runs each closure before the next tick.
Next ==
    \/ Startup(LoadResults, ReadResults)
    \/ SampleLoop(Instants, ReadResults, {TRUE}, MaxTicks, 0)
    \/ RunClosure

Spec == Init /\ [][Next]_vars

\* The sample loop with publishes that are accepted or refused: sensors that
\* read well, a clock read at the start of a history period.
NextPublish ==
    \/ Startup(LoadResults, GoodReads)
    \/ SampleLoop(PeriodStarts, GoodReads, BOOLEAN, MaxTicks, 0)
    \/ RunClosure

SpecPublish == Init /\ [][NextPublish]_vars

\* The sample loop over every boiler and readings on both sides of the
\* reference temperature: sensors that read or fail, publishes that are
\* accepted, a clock read at the start of a history period.
NextEnergy ==
    \/ Startup(EnergyLoads, GoodReads)
    \/ SampleLoop(PeriodStarts, EnergyReads, {TRUE}, MaxEnergyTicks, 0)
    \/ RunClosure

SpecEnergy == Init /\ [][NextEnergy]_vars

\* The sample loop beside a UI event loop that lags behind it and a window
\* that may be closed at any time; publishes are accepted, the broker task
\* has not polled yet.
NextUi ==
    \/ Startup(LoadResults, ReadResults)
    \/ SampleLoop(PeriodStarts, ReadResults, {TRUE}, MaxUiTicks, MaxPending)
    \/ RunClosure
    \/ CloseWindow

SpecUi == Init /\ [][NextUi]_vars

\* The sample loop beside a broker that may be unreachable or lose its
\* connection: every outcome of eventloop.poll(), with MaxSensors sensors
\* that read well, publishes that are accepted, a window that stays open and
\* a clock read at the start of a history period.
NextBroker ==
    \/ Startup(FullLoads, GoodReads)
    \/ SampleLoop(PeriodStarts, GoodReads, {TRUE}, MaxBrokerTicks, 0)
    \/ BrokerPollOk
    \/ \E drain \in BOOLEAN, now \in PeriodStarts : BrokerPollErr(drain, now)
    \/ \E now \in PeriodStarts : BrokerWake(now)
    \/ RunClosure

SpecBroker == Init /\ [][NextBroker]_vars

\* The three activities together: the sample loop with MaxSensors sensors
\* that read or fail in its ticks, the broker task with every outcome of
\* eventloop.poll(), and the UI event loop running the closures; startup
\* reads that succeed, publishes that are accepted, a window that stays open
\* and a clock read at the start of a history period.
NextLockstep ==
    \/ Startup(FullLoads, GoodReads)
    \/ SampleLoop(PeriodStarts, ReadResults, {TRUE}, MaxLockTicks, 0)
    \/ BrokerPollOk
    \/ \E drain \in BOOLEAN, now \in PeriodStarts : BrokerPollErr(drain, now)
    \/ \E now \in PeriodStarts : BrokerWake(now)
    \/ RunClosure

SpecLockstep == Init /\ [][NextLockstep]_vars

\* SensorHistory alone: a track made by new() and a sequence of add_point
\* calls, one per history interval.  At most MaxMarked of the values are
\* readings; the others are the value of a failed read.
Marked(vals) == Cardinality({k \in 1..Len(vals) : vals[k] # SENTINEL_TEMP})

InitHistory ==
    /\ Init!1 /\ Init!2 /\ Init!3
    /\ \E v \in ReadValues \cup {FALLBACK_TEMP} :
        /\ history = <<New(v, 0)>>
        /\ added = <<[read |-> [ok |-> v \in ReadValues, temp |-> IF v \in ReadValues THEN v ELSE 0],
                       seed |-> v, vals |-> <<>>, tick |-> 0]>>
    /\ pc = "none"
    /\ deadline = 0
    /\ last_history_update = 0
    /\ temps = <<>>
    /\ energy_kwh = 0
    /\ tickNo = 0
    /\ readLog = <<>>
    /\ pubLog = <<>>
    /\ requests = 0
    /\ netUp = FALSE
    /\ brokerPc = "none"
    /\ wake = 0
    /\ failures = 0
    /\ uiAlive = TRUE
    /\ uiQueue = <<>>
    /\ ui = [names |-> <<>>, vals |-> <<>>, paths |-> <<>>, energy_kwh |-> 0, tick |-> 0]

HistoryAddPoint(v) ==
    /\ Len(added[1].vals) < MaxAdds
    /\ v # SENTINEL_TEMP => Marked(added[1].vals) < MaxMarked
    /\ clock' = clock + HISTORY_UPDATE_SECS
    /\ history' = <<AddPoint(history[1], v, clock')>>
    /\ added' = <<[added[1] EXCEPT !.vals = Append(@, v)]>>
    /\ UNCHANGED <<mainVars, loopVars, requests, brokerVars, uiVars>>

NextHistory == \E v \in ReadValues \cup {SENTINEL_TEMP} : HistoryAddPoint(v)

SpecHistory == InitHistory /\ [][NextHistory]_vars

\* SensorHistory and its rendering: a track made by new(), add_point calls
\* with values below 0 degC, within the display range and above 100 degC,
\* and the rendering of the track for the window (main.rs:148, 158).
RenderValues == {0 - 5000, 0, 2150, 10000, 15000}

RenderAddPoint(v) ==
    /\ Len(added[1].vals) < MaxRenderAdds
    /\ clock' = clock + HISTORY_UPDATE_SECS
    /\ history' = <<AddPoint(history[1], v, clock')>>
    /\ added' = <<[added[1] EXCEPT !.vals = Append(@, v)]>>
    /\ UNCHANGED <<mainVars, loopVars, requests, brokerVars, uiVars>>

RenderPaths ==
    /\ ui' = [ui EXCEPT !.paths = [i \in 1..Len(history) |-> ToSvgPath(history[i])]]
    /\ UNCHANGED <<mainVars, clock, history, added, loopVars, requests, brokerVars,
                   uiAlive, uiQueue>>

NextRender ==
    \/ \E v \in RenderValues : RenderAddPoint(v)
    \/ RenderPaths

SpecRender == InitHistory /\ [][NextRender]_vars

\* ------------------------------------------------------------------- claims
\* The step of the sample loop that passes the history gate; clock' is the
\* instant it reads.
GateStep == pc = "history" /\ pc' = "energy"

\* A track took a point in this step.
Updated(i) == Len(added'[i].vals) = Len(added[i].vals) + 1

\* C1: in the sample loop a tick changes a history track only when at least
\* HISTORY_UPDATE_SECS have passed since the track's last update (at first,
\* since the start); ticks before that add no point, and the tick that finds
\* the interval elapsed adds one.
C1_GateOnElapsedTime ==
    [][/\ mainPc = "run" =>
            \A i \in 1..Len(history) :
                (history'[i] # history[i] \/ added'[i] # added[i]) =>
                    /\ GateStep
                    /\ clock' - history[i].last_update >= HISTORY_UPDATE_SECS
       /\ GateStep =>
            \A i \in 1..Len(history) :
                clock' - history[i].last_update >= HISTORY_UPDATE_SECS =>
                    /\ Updated(i)
                    /\ history'[i].last_update = clock']_vars

\* The second tick passes the gate exactly HISTORY_UPDATE_SECS after the
\* start and makes the first update: the first tick made none.
C1_Witness ==
    /\ tickNo = 2
    /\ pc = "energy"
    /\ clock = HISTORY_UPDATE_SECS
    /\ Len(history) = 2
    /\ \A i \in 1..2 : Len(added[i].vals) = 1 /\ history[i].last_update = clock

\* The value of a decimal string as a number of 10^-k: the inverse of
\* to_string, by its digits.
CharDigit(c) == CHOOSE d \in 0..9 : ToString(d) = c

RECURSIVE ParseDigits(_, _, _)
ParseDigits(str, from, acc) ==
    IF from > Len(str) \/ SubSeq(str, from, from) = "." THEN <<acc, from>>
    ELSE ParseDigits(str, from + 1, 10 * acc + CharDigit(SubSeq(str, from, from)))

ParseDecimal(str, k) ==
    LET neg == Len(str) > 0 /\ SubSeq(str, 1, 1) = "-"
        whole == ParseDigits(str, IF neg THEN 2 ELSE 1, 0)
        frac == IF whole[2] > Len(str) THEN <<0, whole[2] + 1>>
                ELSE ParseDigits(str, whole[2] + 1, 0)
        places == frac[2] - whole[2] - 1
        v == whole[1] * Pow10(k) + frac[1] * Pow10(k - places)
    IN  IF neg THEN 0 - v ELSE v

\* The sensors whose publish has been issued in the tick so far.
PublishedSensors == IF pc = "publish" THEN Len(temps) - 1 ELSE Len(temps)

\* Where the tick stands: every sensor before the one at hand has been read
\* and published, and past the sensors every one of them has.
TickShape ==
    /\ Len(temps) = Len(readLog)
    /\ pc \in {"none", "tick"} => readLog = <<>> /\ pubLog = <<>>
    /\ pc = "read" => Len(readLog) < NumSensors /\ Len(pubLog) = Len(readLog)
    /\ pc = "publish" => Len(readLog) <= NumSensors /\ Len(pubLog) = Len(readLog) - 1
    /\ pc \in {"history", "energy", "publish_energy"} =>
            Len(readLog) = NumSensors /\ Len(pubLog) = NumSensors
    /\ pc = "handoff" => Len(readLog) = NumSensors /\ Len(pubLog) = NumSensors + 1

SomeReadFailed == \E i \in 1..Len(readLog) : ~readLog[i].ok

\* C4: a failed read is replaced by 0.0 and changes nothing else in the tick:
\* every other sensor is still read, every sensor's value published, every
\* track updated when the gate is open, the energy published and the
\* snapshot handed off; the loop then waits for its next tick.
C4_ReadFailureIsolated ==
    /\ [](SomeReadFailed =>
            /\ TickShape
            /\ \A i \in 1..Len(readLog) :
                    temps[i] = IF readLog[i].ok THEN readLog[i].temp ELSE SENTINEL_TEMP
            /\ \A i \in 1..PublishedSensors :
                    ParseDecimal(pubLog[i].payload, TEMP_DIGITS) = temps[i])
    /\ [][SomeReadFailed =>
            /\ (GateStep /\ clock' - last_history_update >= HISTORY_UPDATE_SECS) =>
                    \A i \in 1..NumSensors :
                        added'[i].vals = Append(added[i].vals, temps[i])
            /\ (pc = "publish_energy" /\ pc' # pc) =>
                    /\ pc' = "handoff"
                    /\ ParseDecimal(pubLog'[NumSensors + 1].payload, ENERGY_DIGITS) =
                            EnergyKwh(temps, config.boiler)
            /\ (pc = "handoff" /\ pc' # pc) =>
                    /\ pc' = "tick"
                    /\ uiAlive => /\ Len(uiQueue') = Len(uiQueue) + 1
                                  /\ uiQueue'[Len(uiQueue')].temps = temps]_vars

\* Sensor 1 failed and sensor 2 was read; the gate was open, both tracks took
\* the tick's value and the tick reached its hand-off.
C4_Witness ==
    /\ pc = "handoff"
    /\ tickNo = 1
    /\ NumSensors = 2
    /\ ~readLog[1].ok /\ readLog[2].ok
    /\ temps = <<SENTINEL_TEMP, readLog[2].temp>>
    /\ added[1].vals = <<SENTINEL_TEMP>>
    /\ added[2].vals = <<readLog[2].temp>>
    /\ Len(pubLog) = 3

\* C6: a tick issues one publish per sensor, in configuration order, on
\* base_topic/name with the tick's reading as a decimal string, then one on
\* base_topic/energy with the tick's energy, and no other.
C6_PublicationContract ==
    /\ Len(pubLog) = PublishedSensors + (IF pc = "handoff" THEN 1 ELSE 0)
    /\ \A i \in 1..PublishedSensors :
            /\ pubLog[i].topic = config.mqtt.base_topic \o "/" \o config.sensors[i].name
            /\ ParseDecimal(pubLog[i].payload, TEMP_DIGITS) = temps[i]
    /\ pc = "handoff" =>
            /\ PublishedSensors = NumSensors
            /\ pubLog[NumSensors + 1].topic = config.mqtt.base_topic \o "/energy"
            /\ ParseDecimal(pubLog[NumSensors + 1].payload, ENERGY_DIGITS) = energy_kwh
            /\ energy_kwh = EnergyKwh(temps, config.boiler)

\* A tick of two sensors that read 21.5 degC: with 100 l, 20 degC and 1.162
\* the energy is 0.1743 kWh.
C6_Witness ==
    /\ pc = "handoff"
    /\ pubLog = <<[topic |-> "boiler/T1", payload |-> "21.5"],
                  [topic |-> "boiler/T2", payload |-> "21.5"],
                  [topic |-> "boiler/energy", payload |-> "0.1743"]>>

\* A publish call returned in this step, and returned an error: no request
\* entered the channel.
PublishFailed == pubLog' # pubLog /\ pubLog' # <<>> /\ requests' = requests

\* The publish calls made since the start.
PublishCalls == (IF tickNo = 0 THEN 0 ELSE (tickNo - 1) * (NumSensors + 1)) + Len(pubLog)

\* C7: a publish that returns an error is dropped: the loop goes on to the
\* step that follows a successful publish, with the readings, the history
\* and the gate as they were, and the message is not sent again; the rest
\* of the tick takes place.
C7_PublishFailureSwallowed ==
    /\ [](mainPc = "run" /\ requests < PublishCalls =>
            /\ TickShape
            /\ \A i, j \in 1..Len(pubLog) : pubLog[i].topic = pubLog[j].topic => i = j)
    /\ [][PublishFailed =>
            /\ Len(pubLog') = Len(pubLog) + 1
            /\ pc' = IF pc = "publish_energy" THEN "handoff"
                     ELSE IF Len(temps) < NumSensors THEN "read" ELSE "history"
            /\ UNCHANGED <<temps, readLog, history, added, last_history_update, energy_kwh,
                           deadline, tickNo, mainPc, uiQueue, ui>>]_vars

\* The first publish of the tick failed, and the tick reached its hand-off
\* with every sensor read and every publish issued.
C7_Witness ==
    /\ pc = "handoff"
    /\ tickNo = 1
    /\ NumSensors = 2
    /\ requests = 0
    /\ Len(pubLog) = 3
    /\ Len(temps) = 2

\* C2: every SensorHistory holds exactly HISTORY_POINTS points: all equal to
\* the initial value after new(), and still HISTORY_POINTS of them after any
\* number of add_point calls.
C2_FixedLength ==
    \A i \in 1..Len(history) :
        /\ Len(history[i].points) = HISTORY_POINTS
        /\ added[i].vals = <<>> =>
                \A k \in 1..HISTORY_POINTS : history[i].points[k] = added[i].seed

\* A track that took more add_point calls than it holds points.
C2_Witness ==
    /\ Len(history) = 1
    /\ Len(added[1].vals) > HISTORY_POINTS
    /\ Len(history[1].points) = HISTORY_POINTS

\* C3: after K add_point calls the points are the last HISTORY_POINTS values
\* added, in insertion order, when K >= HISTORY_POINTS, and HISTORY_POINTS - K
\* copies of the seed followed by the K values otherwise.
LastPoints(seed, vals) ==
    LET K == Len(vals)
        N == HISTORY_POINTS
    IN  IF K >= N THEN SubSeq(vals, K - N + 1, K)
        ELSE [k \in 1..(N - K) |-> seed] \o vals

C3_SlidingWindow ==
    \A i \in 1..Len(history) :
        history[i].points = LastPoints(added[i].seed, added[i].vals)

\* More calls than points, and a reading that has moved from the newest place
\* to the oldest.
C3_Witness ==
    /\ Len(history) = 1
    /\ Len(added[1].vals) > HISTORY_POINTS
    /\ history[1].points[1] # SENTINEL_TEMP
    /\ history[1].points[HISTORY_POINTS] = SENTINEL_TEMP

\* C5: a publish call of the sample loop always returns, whatever the broker
\* task does: the loop at a publish is never kept from its next step by the
\* request channel.
C5_PublishNeverWaits ==
    /\ pc = "publish" => ENABLED PublishReading(TRUE)
    /\ pc = "publish_energy" => ENABLED PublishEnergy(TRUE)

\* The step of the broker task whose poll returned an error.
PollFailed == failures' # failures

\* The step of the broker task whose poll returned Ok.
PollSucceeded ==
    /\ failures' = failures
    /\ (netUp' /\ ~netUp) \/ requests' < requests

BrokerCanWake == ENABLED (\E now \in PeriodStarts : BrokerWake(now))

BrokerCanFail == ENABLED (\E now \in PeriodStarts : BrokerPollErr(FALSE, now))

\* C8: once spawned the broker task is always polling or sleeping, and main
\* never fails for it; a poll that returns an error puts it to sleep until
\* BACKOFF_SECS after the error, it polls again when the sleep ends, whatever
\* the number of errors so far, and a poll that returns Ok leaves it polling.
C8_BrokerRetriesForever ==
    /\ [](brokerPc # "none" =>
            /\ brokerPc \in {"poll", "sleep"}
            /\ mainPc \in {"seed", "run"}
            /\ brokerPc = "poll" => BrokerCanFail
            /\ (brokerPc = "sleep" /\ \E now \in PeriodStarts : now >= wake) => BrokerCanWake)
    /\ [][/\ PollFailed =>
                /\ brokerPc = "poll" /\ brokerPc' = "sleep"
                /\ failures' = failures + 1
                /\ wake' = clock' + BACKOFF_SECS
                /\ UNCHANGED <<mainPc, loopVars>>
          /\ PollSucceeded => brokerPc = "poll" /\ brokerPc' = "poll"
          /\ brokerPc = "sleep" =>
                /\ UNCHANGED <<netUp, failures, wake>>
                /\ requests' >= requests
                /\ brokerPc' # "sleep" => brokerPc' = "poll" /\ clock' >= wake]_vars

\* Two polls failed: the task slept after the first, polled again a history
\* period later and sleeps again.
C8_Witness ==
    /\ failures = 2
    /\ brokerPc = "sleep"
    /\ wake = HISTORY_UPDATE_SECS + BACKOFF_SECS
    /\ mainPc = "run"

\* The sample loop can start a tick.
LoopCanTick == ENABLED (\E now \in PeriodStarts : Tick(now, MaxUiTicks, MaxPending))

\* The step of the UI event loop that takes a closure from its queue.
ClosureStep == uiQueue # <<>> /\ uiQueue' = Tail(uiQueue)

\* The step of the sample loop that ends a tick at its hand-off.
HandoffStep == pc = "handoff" /\ pc' # pc

\* C9: once the loop runs, the window's properties change only in a step of
\* the UI event loop that runs the oldest scheduled closure, and take that
\* closure's snapshot; no step of the sample loop changes them, its hand-off
\* only schedules the snapshot and goes to the next tick, which can start
\* while closures are still waiting.
C9_UiMutatedOnlyByClosure ==
    /\ [](mainPc = "run" /\ pc = "tick" /\ tickNo < MaxUiTicks /\ uiQueue # <<>>
            /\ Len(uiQueue) <= MaxPending => LoopCanTick)
    /\ [][mainPc = "run" =>
            /\ ui' # ui =>
                    /\ ClosureStep
                    /\ ui' = ApplySnapshot(ui, Head(uiQueue))
                    /\ UNCHANGED <<loopVars, history, added>>
            /\ loopVars' # loopVars => ui' = ui
            /\ HandoffStep =>
                    /\ pc' = "tick"
                    /\ uiAlive => uiQueue' = Append(uiQueue, Snapshot)
            /\ (ClosureStep /\ uiAlive) => ui' = ApplySnapshot(ui, Head(uiQueue))]_vars

\* The second tick is reading its sensors while the closure of the first is
\* still waiting for the UI event loop.
C9_Witness ==
    /\ uiAlive
    /\ tickNo = 2
    /\ pc = "read"
    /\ NumSensors = 2
    /\ Len(uiQueue) = 1
    /\ uiQueue[1].tick = 1
    /\ ui.tick = 0

\* C10: without a window neither the scheduling of a hand-off nor the run of
\* a scheduled closure changes the window's properties, the history or the
\* loop's state, none makes main fail, and the loop goes to its next tick.
C10_TornDownHandoffIsNoOp ==
    /\ [](~uiAlive /\ pc = "tick" /\ tickNo < MaxUiTicks /\ Len(uiQueue) <= MaxPending
            => LoopCanTick)
    /\ [][~uiAlive =>
            /\ UNCHANGED <<ui, uiAlive, mainPc>>
            /\ HandoffStep =>
                    /\ pc' = "tick"
                    /\ uiQueue' \in {uiQueue, Append(uiQueue, Snapshot)}
                    /\ UNCHANGED <<history, added, last_history_update, deadline, tickNo,
                                   requests>>
            /\ ClosureStep =>
                    UNCHANGED <<loopVars, history, added, requests>>]_vars

\* The window was closed before the closure of the first tick could apply
\* its snapshot; the hand-off did nothing and the second tick is under way.
C10_Witness ==
    /\ ~uiAlive
    /\ tickNo = 2
    /\ pc = "read"
    /\ NumSensors = 2
    /\ uiQueue = <<>>
    /\ ui.tick = 0
    /\ ui.vals = <<>>

\* C11: a gate step that finds HISTORY_UPDATE_SECS elapsed appends to every
\* sensor's track the tick's reading of that sensor, once, and sets the
\* gate's reference time to the instant it read; a gate step that finds less
\* changes neither the tracks nor the reference time, no other step of a
\* tick changes the reference time, and it only moves forward by at least
\* HISTORY_UPDATE_SECS.
C11_GateUpdateAndReset ==
    [][mainPc = "run" =>
        /\ (GateStep /\ clock' - last_history_update >= HISTORY_UPDATE_SECS) =>
                /\ Len(temps) = NumSensors
                /\ \A i \in 1..NumSensors :
                        /\ added'[i].vals = Append(added[i].vals, temps[i])
                        /\ history'[i].points = Append(Tail(history[i].points), temps[i])
                /\ last_history_update' = clock'
        /\ (GateStep /\ clock' - last_history_update < HISTORY_UPDATE_SECS) =>
                UNCHANGED <<last_history_update, history, added>>
        /\ last_history_update' # last_history_update =>
                /\ GateStep
                /\ last_history_update' - last_history_update >= HISTORY_UPDATE_SECS]_vars

\* The first tick opened the gate at HISTORY_UPDATE_SECS and gave every
\* track its reading; the second passed the gate a second later and left
\* the reference time and the tracks as they were.
C11_Witness ==
    /\ tickNo = 2
    /\ pc = "energy"
    /\ clock = HISTORY_UPDATE_SECS + 1
    /\ last_history_update = HISTORY_UPDATE_SECS
    /\ NumSensors = 2
    /\ \A i \in 1..2 : Len(added[i].vals) = 1
    /\ history[1].points[HISTORY_POINTS] = SENTINEL_TEMP
    /\ history[2].points[HISTORY_POINTS] # SENTINEL_TEMP
    /\ temps = <<history[2].points[HISTORY_POINTS], SENTINEL_TEMP>>

\* The tick is past its energy computation.
EnergyComputed == pc \in {"publish_energy", "handoff"}

\* C12: with no sensor configured a tick reads and publishes no sensor,
\* computes an energy of 0 whatever the boiler, publishes it on
\* base_topic/energy and reaches its hand-off.
C12_ZeroSensorTick ==
    (mainPc = "run" /\ NumSensors = 0) =>
        /\ history = <<>> /\ temps = <<>> /\ readLog = <<>>
        /\ pc \in {"tick", "history", "energy", "publish_energy", "handoff"}
        /\ pc # "handoff" => pubLog = <<>>
        /\ EnergyComputed => energy_kwh = 0
        /\ pc = "handoff" =>
                pubLog = <<[topic |-> config.mqtt.base_topic \o "/energy",
                            payload |-> ToDecimalString(0, ENERGY_DIGITS)]>>

\* The energy the claim gives for a tick's readings: 0 when their average is
\* at or below the reference temperature, and otherwise volume times the
\* excess times the coefficient.
ClampedEnergy(ts, boiler) ==
    IF AvgTemp(ts) <= boiler.reference_temp_c THEN 0
    ELSE boiler.volume_l * (AvgTemp(ts) - boiler.reference_temp_c) * boiler.energy_coefficient

SeedPoints(r) == [k \in 1..HISTORY_POINTS |-> IF r.ok THEN r.temp ELSE FALLBACK_TEMP]

\* C14: startup gives each sensor, one after the other, one track whose
\* HISTORY_POINTS points all equal that sensor's startup reading, or 20.0
\* when the read failed; a failed read leaves main in its startup, and the
\* sample loop starts only when every sensor has its track.
C14_StartupSeeding ==
    /\ [](mainPc \in {"seed", "run"} =>
            /\ Len(history) <= NumSensors
            /\ Len(added) = Len(history)
            /\ mainPc = "run" => Len(history) = NumSensors
            /\ mainPc = "seed" => pc = "none" /\ tickNo = 0
            /\ \A i \in 1..Len(history) :
                    added[i].vals = <<>> => history[i].points = SeedPoints(added[i].read))
    /\ [][mainPc = "seed" =>
            /\ mainPc' \in {"seed", "run"}
            /\ history' # history =>
                    /\ Len(history') = Len(history) + 1
                    /\ SubSeq(history', 1, Len(history)) = history
                    /\ history'[Len(history')].points = SeedPoints(added'[Len(history')].read)
                    /\ mainPc' = "seed"
            /\ mainPc' = "run" =>
                    /\ Len(history) = NumSensors
                    /\ history' = history
                    /\ pc' = "tick"]_vars

\* The startup read of sensor 1 failed and that of sensor 2 gave a reading:
\* the loop is about to start with a track of 20.0 and a track of the
\* reading.
C14_Witness ==
    /\ mainPc = "run"
    /\ pc = "tick"
    /\ tickNo = 0
    /\ NumSensors = 2
    /\ ~added[1].read.ok
    /\ \A k \in 1..HISTORY_POINTS : history[1].points[k] = FALLBACK_TEMP
    /\ added[2].read.ok
    /\ \A k \in 1..HISTORY_POINTS : history[2].points[k] = added[2].read.temp
    /\ added[2].read.temp # FALLBACK_TEMP

\* C15: when Config::load fails main ends at once: the broker task and the
\* sample loop were never started, no sensor was read, no track made, no
\* publish issued and no closure scheduled, and nothing happens afterwards;
\* main leaves the load for its startup only with a loaded configuration.
C15_LoadFailureIsFatal ==
    /\ [](mainPc = "failed" =>
            /\ brokerPc = "none" /\ failures = 0 /\ ~netUp
            /\ pc = "none" /\ tickNo = 0
            /\ config = NoConfig
            /\ history = <<>> /\ added = <<>> /\ readLog = <<>> /\ temps = <<>>
            /\ pubLog = <<>> /\ requests = 0
            /\ uiQueue = <<>> /\ ui.names = <<>>
            /\ ~ENABLED Next)
    /\ [][mainPc = "load" =>
            /\ mainPc' \in {"seed", "failed"}
            /\ mainPc' = "seed" => config' \in Configs /\ brokerPc' = "poll"
            /\ mainPc' = "failed" =>
                    UNCHANGED <<config, clock, history, added, loopVars, requests,
                                brokerVars, uiVars>>]_vars

\* The load failed: main has ended with nothing started.
C15_Witness ==
    /\ mainPc = "failed"
    /\ brokerPc = "none"
    /\ pc = "none"
    /\ config = NoConfig

\* The y the claim gives for a value: 100 - value within the display range,
\* 100 at and below 0 degC, 0 at and above 100 degC.
ClampedY(v) == IF v <= 0 THEN Y_MAX ELSE IF v >= 100 * TEMP_SCALE THEN 0 ELSE Y_MAX - v

\* C16: the path of a track has one command per point, in order, the first
\* an "M" and the others an "L", with x the point's index from 0 and y =
\* clamp(100 - value, 0, 100): within [0, 100], 100 for values <= 0, 0 for
\* values >= 100, and not increasing with the value; rendering leaves the
\* track as it was.
C16_RenderPath ==
    /\ [](\A i \in 1..Len(history) :
            LET h == history[i]
                path == ToSvgPath(h)
            IN  /\ Len(path) = Len(h.points)
                /\ \A k \in 1..Len(path) :
                        /\ path[k][1] = IF k = 1 THEN "M" ELSE "L"
                        /\ path[k][2] = k - 1
                        /\ path[k][3] = ClampedY(h.points[k])
                        /\ path[k][3] >= 0 /\ path[k][3] <= Y_MAX
                /\ \A j, k \in 1..Len(path) :
                        h.points[j] <= h.points[k] => path[j][3] >= path[k][3])
    /\ [][ui'.paths # ui.paths =>
            /\ history' = history
            /\ ui'.paths = [i \in 1..Len(history) |-> ToSvgPath(history[i])]]_vars

\* The rendered path of a track whose three newest points are -50, 150 and
\* 21.5 degC, after 93 points of the seed.
C16_Witness ==
    /\ Len(history) = 1
    /\ added[1].vals = <<0 - 5000, 15000, 2150>>
    /\ ui.paths = <<ToSvgPath(history[1])>>
    /\ Len(ui.paths[1]) = HISTORY_POINTS
    /\ ui.paths[1][HISTORY_POINTS - 2] = <<"L", HISTORY_POINTS - 3, Y_MAX>>
    /\ ui.paths[1][HISTORY_POINTS - 1] = <<"L", HISTORY_POINTS - 2, 0>>
    /\ ui.paths[1][HISTORY_POINTS] = <<"L", HISTORY_POINTS - 1, 7850>>
    /\ ui.paths[1][1] = <<"M", 0, Y_MAX - added[1].seed>>

\* The moves of the sample loop from one position to the next.
CycleSteps ==
    {<<"none", "tick">>, <<"tick", "read">>, <<"tick", "history">>,
     <<"read", "publish">>, <<"publish", "read">>, <<"publish", "history">>,
     <<"history", "energy">>, <<"energy", "publish_energy">>,
     <<"publish_energy", "handoff">>, <<"handoff", "tick">>}

\* The tracks were updated in the tick at hand.
UpdatedThisTick == \A i \in 1..Len(added) : added[i].tick = tickNo

\* C17: a cycle reads and publishes each sensor in turn, then passes the
\* history gate, computes the energy, publishes it and hands the snapshot
\* off, and the loop then waits for the next tick; a new cycle starts only
\* from that wait; and the snapshot of a cycle that updated the history
\* shows the cycle's reading as the newest point of every track.
C17_CycleOrder ==
    /\ [](/\ pc = "read" => Len(pubLog) = Len(temps) /\ Len(temps) < NumSensors
          /\ pc = "publish" => Len(pubLog) = Len(temps) - 1
          /\ pc \in {"history", "energy", "publish_energy"} =>
                   Len(temps) = NumSensors /\ Len(pubLog) = NumSensors
          /\ (pc \in {"energy", "publish_energy", "handoff"} /\ UpdatedThisTick) =>
                   \A i \in 1..NumSensors :
                       history[i].points[HISTORY_POINTS] = temps[i])
    /\ [][/\ pc' # pc =>
               /\ <<pc, pc'>> \in CycleSteps
               /\ (pc = "tick" /\ pc' = "history") => NumSensors = 0
               /\ pc = "read" => Len(temps') = Len(temps) + 1 /\ pubLog' = pubLog
               /\ pc = "publish" =>
                       /\ Len(pubLog') = Len(pubLog) + 1 /\ temps' = temps
                       /\ pc' = IF Len(temps) < NumSensors THEN "read" ELSE "history"
          /\ loopVars' # loopVars => pc' # pc
          /\ tickNo' # tickNo => pc = "tick" /\ pc' # "tick" /\ tickNo' = tickNo + 1
          /\ (HandoffStep /\ uiAlive) =>
               /\ uiQueue'[Len(uiQueue')].tick = tickNo
               /\ uiQueue'[Len(uiQueue')].temps = temps
               /\ UpdatedThisTick =>
                       \A i \in 1..NumSensors :
                           uiQueue'[Len(uiQueue')].history_paths[i][HISTORY_POINTS][3] =
                               ClampedY(temps[i])]_vars

\* The first cycle read 21.5 degC and a failure, updated the history and has
\* handed off a snapshot whose paths end at those two values.
C17_Witness ==
    /\ pc = "tick"
    /\ tickNo = 1
    /\ NumSensors = 2
    /\ UpdatedThisTick
    /\ Len(uiQueue) = 1
    /\ uiQueue[1].temps = <<2150, SENTINEL_TEMP>>
    /\ uiQueue[1].history_paths[1][HISTORY_POINTS][3] = Y_MAX - 2150
    /\ uiQueue[1].history_paths[2][HISTORY_POINTS][3] = Y_MAX

\* A snapshot holds the readings and the energy of one tick.
OneTick(c) ==
    /\ Len(c.temps) = NumSensors
    /\ Len(c.history_paths) = NumSensors
    /\ c.energy_kwh = EnergyKwh(c.temps, config.boiler)
    /\ c.tick \in 1..tickNo

\* C18: the snapshot a hand-off schedules holds the readings, the energy
\* and the paths of the tracks as they are at that hand-off; a scheduled
\* snapshot is never changed, whatever later ticks read or add to the
\* tracks; closures run oldest first, so in tick order, and a closure gives
\* the window exactly its snapshot: readings, paths and energy of one tick.
C18_SnapshotIsolation ==
    /\ [](/\ \A k \in 1..Len(uiQueue) : OneTick(uiQueue[k]) /\ uiQueue[k].tick > ui.tick
          /\ \A j, k \in 1..Len(uiQueue) : j < k => uiQueue[j].tick < uiQueue[k].tick
          /\ ui.tick > 0 =>
                /\ ui.vals = [k \in 1..NumSensors |-> ui.vals[k]]
                /\ ui.energy_kwh = EnergyKwh(ui.vals, config.boiler))
    /\ [][/\ uiQueue' # uiQueue =>
                \/ /\ HandoffStep
                   /\ uiQueue' = Append(uiQueue,
                        [temps |-> temps,
                         history_paths |-> [i \in 1..NumSensors |-> ToSvgPath(history[i])],
                         energy_kwh |-> energy_kwh,
                         tick |-> tickNo])
                \/ uiQueue' = Tail(uiQueue) /\ pc' = pc
          /\ (ClosureStep /\ uiAlive) =>
                /\ ui'.vals = Head(uiQueue).temps
                /\ ui'.paths = Head(uiQueue).history_paths
                /\ ui'.energy_kwh = Head(uiQueue).energy_kwh
                /\ ui'.tick = Head(uiQueue).tick]_vars

\* The snapshot of the first tick is still waiting while the second tick,
\* with other readings, has added a point to the tracks: the waiting
\* snapshot shows the tracks as the first tick left them.
C18_Witness ==
    /\ uiAlive
    /\ tickNo = 2
    /\ pc = "energy"
    /\ NumSensors = 2
    /\ UpdatedThisTick
    /\ Len(uiQueue) = 1
    /\ uiQueue[1].tick = 1
    /\ uiQueue[1].temps # temps
    /\ \A i \in 1..2 :
            /\ uiQueue[1].history_paths[i] # ToSvgPath(history[i])
            /\ uiQueue[1].history_paths[i][HISTORY_POINTS][3] = Y_MAX - added[i].seed

\* The sensors whose read failed in the tick so far.
FailedSensors == {i \in 1..Len(readLog) : ~readLog[i].ok}

\* The sum of the tick's readings, a failed read counting as the sentinel.
ReadSum == Sum([i \in 1..Len(readLog) |-> IF readLog[i].ok THEN readLog[i].temp ELSE SENTINEL_TEMP])

\* C19: the 0.0 that replaces a failed read is the tick's reading of that
\* sensor: it is the payload published on the sensor's topic, it counts in
\* the average of the tick's energy (the sum is divided by the number of
\* sensors, failed ones included), it is the value handed off for the
\* sensor, and an open gate appends it as the newest point of its track.
C19_SentinelIsAReading ==
    /\ [](/\ \A i \in FailedSensors :
                /\ temps[i] = SENTINEL_TEMP
                /\ i <= PublishedSensors =>
                        /\ pubLog[i].topic =
                                config.mqtt.base_topic \o "/" \o config.sensors[i].name
                        /\ pubLog[i].payload = "0"
          /\ (FailedSensors # {} /\ pc \in {"publish_energy", "handoff"}) =>
                energy_kwh = config.boiler.volume_l
                                * Max((ReadSum \div NumSensors) - config.boiler.reference_temp_c, 0)
                                * config.boiler.energy_coefficient)
    /\ [][/\ (GateStep /\ clock' - last_history_update >= HISTORY_UPDATE_SECS) =>
                \A i \in FailedSensors :
                    /\ history'[i].points[HISTORY_POINTS] = SENTINEL_TEMP
                    /\ \A k \in 1..(HISTORY_POINTS - 1) :
                            history'[i].points[k] = history[i].points[k + 1]
          /\ (HandoffStep /\ uiAlive) =>
                \A i \in FailedSensors :
                    /\ uiQueue'[Len(uiQueue')].temps[i] = SENTINEL_TEMP
                    /\ uiQueue'[Len(uiQueue')].energy_kwh = energy_kwh
                    /\ UpdatedThisTick =>
                            uiQueue'[Len(uiQueue')].history_paths[i][HISTORY_POINTS][3] = Y_MAX]_vars

\* Sensor 1 read 21.5, sensor 2 failed and the gate was open: the window
\* shows 0 for sensor 2, its track ends with 0, and the energy is that of the
\* average 10.75, below the reference, not that of 21.5.
C19_Witness ==
    /\ pc = "tick"
    /\ tickNo = 1
    /\ ui.tick = 1
    /\ ui.vals = <<2150, SENTINEL_TEMP>>
    /\ added[2].vals = <<SENTINEL_TEMP>>
    /\ history[2].points[HISTORY_POINTS] = SENTINEL_TEMP
    /\ history[2].points[HISTORY_POINTS - 1] = added[2].seed
    /\ ui.paths[2][HISTORY_POINTS][3] = Y_MAX
    /\ ui.energy_kwh = 0
    /\ EnergyKwh(<<2150>>, config.boiler) > 0

\* A step of the startup that makes the track of the next sensor.
SeedStep == mainPc = "seed" /\ Len(history') = Len(history) + 1

\* C20: once the sample loop runs there is one track per configured sensor
\* and, from the gate on, one reading per sensor in the tick; every track
\* has taken the same number of add_point calls, the last in the same tick;
\* an update gives track i the reading of sensor i, failed or not, and moves
\* every track by one point; the tracks change only in the startup that
\* makes them and in the gate step of the sample loop, never in a step of
\* the broker task or of the UI event loop.
C20_LockstepHistory ==
    /\ [](/\ Len(added) = Len(history)
          /\ Len(history) <= NumSensors
          /\ pc # "none" => Len(history) = NumSensors
          /\ pc \in {"history", "energy", "publish_energy", "handoff"} =>
                /\ Len(temps) = NumSensors
                /\ Len(readLog) = NumSensors
          /\ \A i, j \in 1..Len(added) :
                /\ Len(added[i].vals) = Len(added[j].vals)
                /\ added[i].tick = added[j].tick
          /\ \A i \in 1..Len(history) : Len(history[i].points) = HISTORY_POINTS)
    /\ [][/\ <<history, added>>' # <<history, added>> =>
                \/ SeedStep /\ pc = "none" /\ UNCHANGED <<brokerVars, uiVars>>
                \/ /\ GateStep
                   /\ UNCHANGED <<brokerVars, uiVars>>
                   /\ \A i \in 1..NumSensors :
                        /\ temps[i] = IF readLog[i].ok THEN readLog[i].temp ELSE SENTINEL_TEMP
                        /\ added'[i].vals = Append(added[i].vals, temps[i])
                        /\ history'[i].points = Tail(history[i].points) \o <<temps[i]>>
          /\ (brokerVars' # brokerVars \/ uiVars' # uiVars) => UNCHANGED <<history, added>>]_vars

\* Sensor 1 failed and sensor 2 read 21.5 in a tick whose gate was open,
\* while the broker task had a failed poll behind it and the UI event loop
\* ran the tick's closure: both tracks took one point, each the value of its
\* own sensor.
C20_Witness ==
    /\ pc = "tick"
    /\ tickNo = 1
    /\ NumSensors = 2
    /\ added[1].vals = <<SENTINEL_TEMP>>
    /\ added[2].vals = <<2150>>
    /\ history[1].points[HISTORY_POINTS] = SENTINEL_TEMP
    /\ history[2].points[HISTORY_POINTS] = 2150
    /\ failures > 0
    /\ ui.tick = 1
    /\ ui.vals = <<SENTINEL_TEMP, 2150>>

====
